---- MODULE Spec2Model ----
(***************************************************************************)
(* A model of cyhy-mailer (src/cyhy/mailer/cli.py): the command line run   *)
(* that reads request documents from the Cyber Hygiene database, finds the *)
(* report files on disk, builds the messages and hands them to the SES     *)
(* mail transport, and finally mails the summary statistics.               *)
(*                                                                         *)
(* Python strings whose characters matter (email addresses) are sequences  *)
(* of one-character strings.  A Python dict with optional keys is a        *)
(* function whose DOMAIN holds the keys that are present.                  *)
(***************************************************************************)
EXTENDS Integers, Sequences, FiniteSets, TLC

VARIABLES
    pc,         \* position of the run (main) or of the function under study
    args,       \* docopt's parsed command line
    db,         \* the requests collection: _id -> request document
    disk,       \* report directory option -> set of file names in that directory
    transport,  \* every RawMessage handed to ses_client.send_raw_email, in order; with its response
    stats,      \* main's all_stats_strings
    cursor,     \* the request documents the running send_* function has yet to iterate over
    locals,     \* the local variables of the running send_* function
    outcome,    \* how the run or call ended: return value or uncaught exception
    call,       \* the arguments of the function under study (function-level specifications)
    ret         \* its result

vars == <<pc, args, db, disk, transport, stats, cursor, locals, outcome, call, ret>>

----------------------------------------------------------------------------
(* Bounds *)

MaxContacts == 2

----------------------------------------------------------------------------
(* Python values *)

None == "None"

\* A value that is never a sequence, a set or a record of the program.
Nothing == [nothing |-> TRUE]

\* Python truthiness of a list (a sequence)
Truthy(list) == Len(list) > 0

\* str.split() with no argument: the maximal runs of non-whitespace characters
RECURSIVE SplitFrom(_, _, _)
SplitFrom(s, i, word) ==
    IF i > Len(s)
    THEN IF word = <<>> THEN <<>> ELSE <<word>>
    ELSE IF s[i] = " "
         THEN (IF word = <<>> THEN <<>> ELSE <<word>>) \o SplitFrom(s, i + 1, <<>>)
         ELSE SplitFrom(s, i + 1, Append(word, s[i]))

split(s) == SplitFrom(s, 1, <<>>)

\* [c["email"] for c in contacts]
EmailsOf(contacts) == [i \in 1..Len(contacts) |-> contacts[i].email]

----------------------------------------------------------------------------
(* get_emails_from_request *)

\* "type" in c and "email" in c and c["email"].split()
ContactKept(c) ==
    /\ "type" \in DOMAIN c
    /\ "email" \in DOMAIN c
    /\ Truthy(split(c.email))

get_emails_from_requestNoFilter(request) ==
    LET all == SelectSeq(request.agency.contacts,
                         LAMBDA c : "type" \in DOMAIN c /\ "email" \in DOMAIN c)
        distro_emails == EmailsOf(SelectSeq(all, LAMBDA c : c.type = "DISTRO"))
        technical_emails == EmailsOf(SelectSeq(all, LAMBDA c : c.type = "TECHNICAL"))
    IN  IF Truthy(distro_emails) THEN distro_emails ELSE technical_emails

get_emails_from_request(request) ==
    LET contacts == SelectSeq(request.agency.contacts, ContactKept)
        distro_emails == EmailsOf(SelectSeq(contacts, LAMBDA c : c.type = "DISTRO"))
        technical_emails == EmailsOf(SelectSeq(contacts, LAMBDA c : c.type = "TECHNICAL"))
        to_emails == IF Truthy(distro_emails) THEN distro_emails ELSE technical_emails
    IN  to_emails


----------------------------------------------------------------------------
(* The database: request documents *)

\* Agency IDs are sequences of characters, since report file names embed them.
FEDERAL == <<"FEDERAL">>

AllIds == << <<"X">>, <<"X", "-", "A">>, <<"Q">>, <<"R">>, <<"X", "-", "2A">> >>

MaxAgencies == 2

AgencyIds == {AllIds[i] : i \in 1..MaxAgencies}

\* The position of a document in the collection's natural order, the order in
\* which a cursor yields the documents.
NaturalOrder(id) ==
    IF id = FEDERAL THEN 0 ELSE CHOOSE i \in 1..Len(AllIds) : AllIds[i] = id

\* doc.get("retired")
IsRetired(doc) == "retired" \in DOMAIN doc /\ doc.retired

\* db.requests.find_one({"_id": id}): the document, or Nothing (None)
find_one(d, id) == IF id \in DOMAIN d THEN d[id] ELSE Nothing

\* The set as a sequence in the collection's natural order
RECURSIVE InNaturalOrder(_)
InNaturalOrder(ids) ==
    IF ids = {} THEN <<>>
    ELSE LET first == CHOOSE i \in ids : \A j \in ids : NaturalOrder(i) <= NaturalOrder(j)
         IN  <<first>> \o InNaturalOrder(ids \ {first})

----------------------------------------------------------------------------
(* get_all_descendants *)

\* The result of a call: the value returned, or the exception raised
Returned(v) == [raised |-> "", value |-> v]
Raised(e) == [raised |-> e, value |-> Nothing]

\* Python's recursion limit, in calls of get_all_descendants; more than any
\* acyclic database of the model needs.
RecursionLimit == 6

\* The loop over current_request["children"] from position i on, and the
\* recursive call for each non-retired child.  acc is descendants so far.
RECURSIVE DescendantsLoop(_, _, _, _, _)
get_all_descendants_depth(d, parent, depth) ==
    IF depth > RecursionLimit THEN Raised("RecursionError")
    ELSE LET current_request == find_one(d, parent)
         IN  IF current_request = Nothing THEN Raised("ValueError")
             ELSE IF "children" \in DOMAIN current_request
                     /\ Truthy(current_request.children)
                  THEN DescendantsLoop(d, current_request.children, 1, {}, depth)
                  ELSE Returned({})

DescendantsLoop(d, children, i, acc, depth) ==
    IF i > Len(children) THEN Returned(acc)
    ELSE LET child == children[i]
             child_request == find_one(d, child)
         IN  IF child_request = Nothing THEN Raised("AttributeError")
             ELSE IF IsRetired(child_request)
                  THEN DescendantsLoop(d, children, i + 1, acc, depth)
                  ELSE LET below == get_all_descendants_depth(d, child, depth + 1)
                       IN  IF below.raised # "" THEN below
                           ELSE DescendantsLoop(d, children, i + 1,
                                                acc \cup {child} \cup below.value, depth)

\* list(set(descendants)): the order is not defined and only membership is
\* used, so the result is a set.
get_all_descendants(d, parent) == get_all_descendants_depth(d, parent, 1)

----------------------------------------------------------------------------
(* get_requests_raw, get_requests *)

\* The projection of get_requests_raw
Projected(doc) ==
    [_id |-> doc._id,
     agency |-> [acronym |-> doc.agency.acronym, contacts |-> doc.agency.contacts]]

\* A query is the set of its alternatives ($or); an alternative asks for one
\* of some report types ($in) and, if restrict_ids, for one of some IDs.
\* Every query of the run also asks for retired not to be True.
Matches(doc, query) ==
    /\ ~IsRetired(doc)
    /\ \E alternative \in query :
          /\ doc.report_types \cap alternative.report_types # {}
          /\ alternative.restrict_ids => doc._id \in alternative.ids

\* db.requests.find(query, projection): the matching documents, projected,
\* in natural order
get_requests_raw(d, query) ==
    LET ids == InNaturalOrder({id \in DOMAIN d : Matches(d[id], query)})
    IN  [i \in 1..Len(ids) |-> Projected(d[ids[i]])]

\* The query of send_bod_reports
BodQuery(fed_orgs) ==
    {[report_types |-> {"BOD"}, restrict_ids |-> FALSE, ids |-> {}],
     [report_types |-> {"CYHY"}, restrict_ids |-> TRUE, ids |-> fed_orgs]}

\* The query get_requests builds when federal_only is False
RequestsQuery(report_types) ==
    {[report_types |-> report_types, restrict_ids |-> FALSE, ids |-> {}]}

----------------------------------------------------------------------------
(* Report files: glob, sorted, and the report date *)

\* A file name is a sequence of tokens (pieces of the name); an agency ID
\* contributes its own tokens.  The directory part of a path is the same for
\* every file of a listing and is left out.  A token that can follow "<ID>-"
\* in a name is one of these:
Dates == {"2019-01-05", "2019-02-05"}       \* yyyy-mm-dd of a calendar day
NoDay == "2019-19-39"                       \* digits of the right shape, no calendar day
NoDate == "2x"                              \* starts with 2 and is no date

\* The token's first character is "2"
StartsWith2(tok) == tok \in Dates \cup {NoDay, NoDate, "2A"}

\* The token as a whole matches \d{4}-[01]\d-[0-3]\d
IsDateShaped(tok) == tok \in Dates \cup {NoDay}

\* The token's last character is "-"
EndsWithDash(tok) == tok \in {"-", "cyhy-", "cyhy-notification-", "Federal_Cyber_Exposure_Scorecard-"}

\* The order of the tokens as Python strings (by code point), for tokens at
\* the same position of two names
TokenRank(tok) ==
    CASE tok = "-" -> 1
      [] tok = "-https-report" -> 2
      [] tok = "-tmail-report" -> 3
      [] tok = ".pdf" -> 4
      [] tok = ".csv" -> 5
      [] tok = "2019-01-05" -> 6
      [] tok = "2019-02-05" -> 7
      [] tok = "2019-19-39" -> 8
      [] tok = "2A" -> 9
      [] tok = "2x" -> 10
      [] tok = "A" -> 11
      [] tok = "Q" -> 12
      [] tok = "SAMPLE" -> 13
      [] tok = "T" -> 14
      [] tok = "X" -> 15
      [] OTHER -> 16

\* a < b as Python strings
RECURSIVE NameLess(_, _)
NameLess(a, b) ==
    IF a = <<>> THEN b # <<>>
    ELSE IF b = <<>> THEN FALSE
    ELSE IF Head(a) = Head(b) THEN NameLess(Tail(a), Tail(b))
    ELSE TokenRank(Head(a)) < TokenRank(Head(b))

\* sorted(names): ascending
RECURSIVE sortedDescending(_)
sortedDescending(names) ==
    IF names = {} THEN <<>>
    ELSE LET greatest == CHOOSE n \in names : \A m \in names \ {n} : NameLess(m, n)
         IN  <<greatest>> \o sortedDescending(names \ {greatest})

RECURSIVE sorted(_)
sorted(names) ==
    IF names = {} THEN <<>>
    ELSE LET least == CHOOSE n \in names : \A m \in names \ {n} : NameLess(n, m)
         IN  <<least>> \o sorted(names \ {least})

\* a is a prefix of b
IsPrefix(a, b) == Len(a) <= Len(b) /\ SubSeq(b, 1, Len(a)) = a

\* glob.glob(f"{dir}/{prefix}{id}-2*{suffix}"): the names of the listing that
\* start with the prefix, the ID and "-2", and end with the suffix
glob(listing, prefix, id, suffix) ==
    {f \in listing :
        LET stem == <<prefix>> \o id \o <<"-">>
        IN  /\ IsPrefix(stem, f)
            /\ Len(f) >= Len(stem) + 2
            /\ StartsWith2(f[Len(stem) + 1])
            /\ f[Len(f)] = suffix}

\* re.search(r"-(?P<date>\d{4}-[01]\d-[0-3]\d)" + after, name): the positions
\* of the date token of each match
DateMatches(name, after) ==
    {i \in 2..Len(name) - 1 :
        /\ EndsWithDash(name[i - 1])
        /\ IsDateShaped(name[i])
        /\ name[i + 1] = after}

\* match.group("date") ... strptime(..., "%Y-%m-%d").strftime("%B %d, %Y"):
\* the report date of the leftmost match; AttributeError when nothing matches
\* (match is None), ValueError when the digits name no calendar day.
strftime(date) ==
    CASE date = "2019-01-05" -> "January 05, 2019"
      [] date = "2019-02-05" -> "February 05, 2019"

report_date_of(name, after) ==
    LET matches == DateMatches(name, after)
    IN  IF matches = {} THEN Raised("AttributeError")
        ELSE LET i == CHOOSE j \in matches : \A k \in matches : j <= k
             IN  IF name[i] \in Dates THEN Returned(strftime(name[i]))
                 ELSE Raised("ValueError")

\* The names of the reports as the report generators write them
TmailReport(id, date) == <<"cyhy-">> \o id \o <<"-", date, "-tmail-report", ".pdf">>
HttpsReport(id, date) == <<"cyhy-">> \o id \o <<"-", date, "-https-report", ".pdf">>
CyhyReport(id, date) == <<"cyhy-">> \o id \o <<"-", date, "T", ".pdf">>
CyhyNotification(id, date) == <<"cyhy-notification-">> \o id \o <<"-", date, "T", ".pdf">>

----------------------------------------------------------------------------
(* Messages and send_message *)

\* An optional list: the cc_addrs argument
NoneList == [none |-> TRUE, list |-> <<>>]
List(list) == [none |-> FALSE, list |-> list]

\* sep.join(list): the strings of list with sep between them
RECURSIVE joinNoSeparator(_, _)
joinNoSeparator(sep, list) ==
    IF list = <<>> THEN <<>> ELSE Head(list) \o joinNoSeparator(sep, Tail(list))

RECURSIVE join(_, _)
join(sep, list) ==
    IF list = <<>> THEN <<>>
    ELSE IF Len(list) = 1 THEN Head(list)
         ELSE Head(list) \o sep \o join(sep, Tail(list))

\* Message.DefaultFrom, Message.DefaultCc
DefaultFrom == <<"reports@ncats.cyber.dhs.gov">>
DefaultCc == List(<< <<"ncats@hq.dhs.gov">> >>)

attach_text_and_html_bodiesHtmlFirst(html, text) ==
    [type |-> "multipart/alternative",
     parts |-> (IF Truthy(html) THEN <<[type |-> "text/html", payload |-> html]>> ELSE <<>>)
               \o (IF Truthy(text) THEN <<[type |-> "text/plain", payload |-> text]>> ELSE <<>>)]

\* attach_text_and_html_bodies: one alternative part holding the plain text
\* and then the HTML, each if given
attach_text_and_html_bodies(html, text) ==
    [type |-> "multipart/alternative",
     parts |-> (IF Truthy(text) THEN <<[type |-> "text/plain", payload |-> text]>> ELSE <<>>)
               \o (IF Truthy(html) THEN <<[type |-> "text/html", payload |-> html]>> ELSE <<>>)]

\* Message.__init__: the headers and the parts of the message.  The subject
\* and the bodies are strings, empty for None.
Message(to_addrs, subject, text_body, html_body, from_addr, cc_addrs) ==
    [headers |->
        ("From" :> from_addr) @@ ("To" :> join(<<",">>, to_addrs))
        @@ (IF ~cc_addrs.none /\ Truthy(cc_addrs.list)
            THEN "CC" :> join(<<",">>, cc_addrs.list) ELSE <<>>)
        @@ (IF Truthy(subject) THEN "Subject" :> subject ELSE <<>>),
     parts |-> IF Truthy(html_body) \/ Truthy(text_body)
               THEN <<attach_text_and_html_bodies(html_body, text_body)>>
               ELSE <<>>]

\* A mustache template: literal text, {{name}}, {{#name}}...{{/name}} and
\* {{^name}}...{{/name}}.
Literal(text) == [tag |-> "literal", text |-> text]
Variable(name) == [tag |-> "variable", name |-> name]
Section(name, body) == [tag |-> "section", name |-> name, body |-> body]
Inverted(name, body) == [tag |-> "inverted", name |-> name, body |-> body]

\* Mustache truthiness of data[name], for the names the templates use in
\* sections, whose values are Booleans: a missing name and False are falsy.
MustacheTruthy(data, name) == name \in DOMAIN data /\ data[name]

\* render(template, data): the text rendered, as the sequence of its pieces,
\* the literal texts and the values put in for the variables.  A section is
\* rendered if its name is truthy and an inverted section if it is not.
RECURSIVE render(_, _)
render(template, data) ==
    IF template = <<>> THEN <<>>
    ELSE LET t == Head(template)
             piece ==
                 CASE t.tag = "literal" -> <<[text |-> t.text]>>
                   [] t.tag = "variable" ->
                          IF t.name \in DOMAIN data
                          THEN <<[variable |-> t.name, value |-> data[t.name]]>>
                          ELSE <<>>
                   [] t.tag = "section" ->
                          IF MustacheTruthy(data, t.name) THEN render(t.body, data) ELSE <<>>
                   [] t.tag = "inverted" ->
                          IF MustacheTruthy(data, t.name) THEN <<>> ELSE render(t.body, data)
         IN  piece \o render(Tail(template), data)

\* The message classes, as far as the run depends on them: the constructor's
\* arguments.
TmailMessage(to_addrs, pdf_filename, agency_acronym, report_date) ==
    [class |-> "TmailMessage", to |-> to_addrs, attachments |-> <<pdf_filename>>,
     agency_acronym |-> agency_acronym, report_date |-> report_date]

\* attach_pdf: the part added for the PDF file.  Its filename is
\* os.path.split(pdf_filename)[1]; the file names of the model have no
\* directory part.
attach_pdf(pdf_filename) ==
    [type |-> "application/pdf", filename |-> pdf_filename]

\* ReportMessage.__init__: a Message with the PDF file attached
ReportMessage__init__(to_addrs, subject, text_body, html_body, pdf_filename, from_addr, cc_addrs) ==
    LET message == Message(to_addrs, subject, text_body, html_body, from_addr, cc_addrs)
    IN  [message EXCEPT !.parts = @ \o <<attach_pdf(pdf_filename)>>]

HttpsSubject ==
    <<Variable("acronym"), Literal(" - HTTPS Report - "), Variable("report_date"),
      Literal(" Results")>>

HttpsTextBody ==
    <<Literal("Greetings "), Variable("acronym"),
      Literal(", Attached is your latest HTTPS Report.")>>

HttpsHtmlBody ==
    <<Literal("<html><body><p>Greetings "), Variable("acronym"),
      Literal(",</p><p>Attached is your latest HTTPS Report.</p></body></html>")>>

\* HttpsMessage(to_addrs, pdf_filename, agency_acronym, report_date), with
\* from_addr and cc_addrs left to their defaults
HttpsMessage(to_addrs, pdf_filename, agency_acronym, report_date) ==
    LET mustache_data == [acronym |-> agency_acronym, report_date |-> report_date]
        message == ReportMessage__init__(to_addrs,
                                         render(HttpsSubject, mustache_data),
                                         render(HttpsTextBody, mustache_data),
                                         render(HttpsHtmlBody, mustache_data),
                                         pdf_filename, DefaultFrom, DefaultCc)
    IN  [class |-> "HttpsMessage", to |-> to_addrs, attachments |-> <<pdf_filename>>,
         agency_acronym |-> agency_acronym, report_date |-> report_date,
         headers |-> message.headers, parts |-> message.parts]

\* The templates of CyhyMessage
CyhySubject ==
    <<Variable("acronym"), Literal(" - CyHy - FY"), Variable("financial_year"),
      Literal(" Q"), Variable("quarter"), Literal(" Results")>>

CyhyTextBody ==
    <<Literal("Greetings "), Variable("acronym"),
      Literal(", The Cyber Hygiene scan results are attached for your review."),
      Literal("If you have any questions, please contact our office.")>>

CyhyHtmlBody ==
    <<Literal("<html><body><p>Greetings "), Variable("acronym"),
      Literal(",</p><p>The Cyber Hygiene scan results are attached for your review.</p>"),
      Literal("<p>If you have any questions, please contact our office.</p></body></html>")>>

\* send_cyhy_reports passes the report date and the technical POCs as the
\* fourth and fifth arguments.
CyhyMessage(to_addrs, cyhy_pdf_filename, agency_acronym, financial_year, fy_quarter) ==
    LET mustache_data == [acronym |-> agency_acronym, financial_year |-> financial_year,
                          quarter |-> fy_quarter]
    IN  [class |-> "CyhyMessage", to |-> to_addrs, attachments |-> <<cyhy_pdf_filename>>,
         agency_acronym |-> agency_acronym, financial_year |-> financial_year,
         fy_quarter |-> fy_quarter,
         subject |-> render(CyhySubject, mustache_data),
         text_body |-> render(CyhyTextBody, mustache_data),
         html_body |-> render(CyhyHtmlBody, mustache_data)]

\* The subject and the text body templates of CyhyNotificationMessage: the
\* tags, and of the text between them its first words.
NotificationSubject ==
    <<Variable("acronym"), Literal(" - Cyber Hygiene Alert - "), Variable("report_date")>>

NotificationTextBody ==
    <<Literal("Greetings "), Variable("acronym"),
      Literal(", Cyber Hygiene scans of your host(s) conducted in the past day have detected"),
      Section("is_federal",
              <<Literal("As part of BOD 19-02, critical findings need to be remediated")>>),
      Inverted("is_federal",
               <<Literal("CISA recommends remediating critical findings")>>),
      Section("is_federal",
              <<Literal("As part of BOD 22-01, any known exploited findings need to be remediated")>>),
      Inverted("is_federal",
               <<Literal("CISA recommends remediating known exploited vulnerabilities")>>),
      Literal("CISA also recommends reviewing hosts with potentially risky open services"),
      Section("is_federal",
              <<Literal("As part of BOD 23-02, networked management interfaces must be shut off or protected")>>),
      Literal("The details are in the attached PDF")>>

NotificationHtmlBody ==
    <<Literal("<html><body><p>Greetings "), Variable("acronym"),
      Literal(",</p><p>Cyber Hygiene scans of your host(s) conducted in the past day have detected"),
      Section("is_federal",
              <<Literal("As part of <a>BOD 19-02</a>, critical findings need to be remediated")>>),
      Inverted("is_federal",
               <<Literal("CISA recommends remediating critical findings")>>),
      Section("is_federal",
              <<Literal("As part of <a>BOD 22-01</a>, any known exploited findings need to be remediated")>>),
      Inverted("is_federal",
               <<Literal("CISA recommends remediating known exploited vulnerabilities")>>),
      Literal("<p>CISA also recommends reviewing hosts with potentially risky open services"),
      Section("is_federal",
              <<Literal("As part of <a>BOD 23-02</a>, networked management interfaces must be shut off or protected")>>),
      Literal("<p>The details are in the attached PDF</p></body></html>")>>

CyhyNotificationMessage(to_addrs, pdf_filename, agency_acronym, is_federal, report_date) ==
    LET mustache_data == [acronym |-> agency_acronym, is_federal |-> is_federal,
                          report_date |-> report_date]
    IN  [class |-> "CyhyNotificationMessage", to |-> to_addrs,
         attachments |-> <<pdf_filename>>,
         agency_acronym |-> agency_acronym, is_federal |-> is_federal,
         report_date |-> report_date,
         subject |-> render(NotificationSubject, mustache_data),
         text_body |-> render(NotificationTextBody, mustache_data),
         html_body |-> render(NotificationHtmlBody, mustache_data)]

\* attach_csv: the part added for a CSV file
attach_csv(csv_filename) ==
    [type |-> "text/csv", filename |-> csv_filename]

\* CybexMessage.DefaultTo and the templates of CybexMessage
CybexDefaultTo ==
    << <<"CyHy_Reports@hq.dhs.gov">>, <<"CyberDirectives@cisa.dhs.gov">>,
       <<"CyberLiaison@cisa.dhs.gov">>, <<"cyberscopehelp@cisa.dhs.gov">> >>

CybexSubject ==
    <<Literal("Cyber Exposure Scorecard - "), Variable("report_date"), Literal(" Results")>>

CybexTextBody ==
    <<Literal("Greetings, The Cyber Exposure scorecard from "), Variable("report_date"),
      Literal(" is attached for your review.")>>

CybexHtmlBody ==
    <<Literal("<html><body><p>Greetings,</p><p>The Cyber Exposure scorecard from "),
      Variable("report_date"), Literal(" is attached for your review.</p></body></html>")>>

\* CybexMessage(pdf_filename, the four CSV file names, report_date), with the
\* addresses left to their defaults: a ReportMessage with the PDF file, and
\* then the four CSV files attached in the order of the arguments
CybexMessage(pdf_filename, open_csv, closed_csv, urgent_open_csv, urgent_closed_csv, report_date) ==
    LET mustache_data == [report_date |-> report_date]
        message == ReportMessage__init__(CybexDefaultTo,
                                         render(CybexSubject, mustache_data),
                                         render(CybexTextBody, mustache_data),
                                         render(CybexHtmlBody, mustache_data),
                                         pdf_filename, DefaultFrom, DefaultCc)
    IN  [class |-> "CybexMessage",
         attachments |-> <<pdf_filename, open_csv, closed_csv, urgent_open_csv, urgent_closed_csv>>,
         report_date |-> report_date,
         headers |-> message.headers,
         parts |-> message.parts
                   \o <<attach_csv(open_csv), attach_csv(closed_csv),
                        attach_csv(urgent_open_csv), attach_csv(urgent_closed_csv)>>]

ReportMessage(to_addrs, subject, pdf_filename) ==
    [class |-> "ReportMessage", to |-> to_addrs, subject |-> subject,
     attachments |-> <<pdf_filename>>]

StatsMessage(to_addrs, list_of_strings) ==
    [class |-> "StatsMessage", to |-> to_addrs, strings |-> list_of_strings]

\* An optional int: the counter argument of send_message
NoneCounter == [none |-> TRUE, n |-> 0]
Counter(n) == [none |-> FALSE, n |-> n]

\* What ses_client.send_raw_email does with a message: it returns a response
\* with an HTTP status code, or raises ClientError.
Response(status) == [raises |-> "", HTTPStatusCode |-> status]
ClientError == [raises |-> "ClientError", HTTPStatusCode |-> 0]
Responses == {Response(200), Response(500), ClientError}

\* send_message(ses_client, message, counter, dry_run), when the transport
\* answers with response.  calls: the calls of send_raw_email made, each with
\* the transport's answer; result: the counter returned or the exception raised.
send_messageCountOnly(message, counter, dry_run, response) ==
    [calls |-> IF dry_run THEN <<>> ELSE <<[message |-> message, response |-> response]>>,
     result |-> Returned(IF counter.none THEN counter ELSE Counter(counter.n + 1))]

send_messageIgnoreDryRun(message, counter, dry_run, response) ==
    [calls |-> <<[message |-> message, response |-> response]>>,
     result |-> IF response.raises # "" THEN Raised(response.raises)
                ELSE IF response.HTTPStatusCode # 200 THEN Raised("UnableToSendError")
                ELSE Returned(IF counter.none THEN counter ELSE Counter(counter.n + 1))]

send_message(message, counter, dry_run, response) ==
    IF ~dry_run
    THEN LET call_ == [message |-> message, response |-> response]
         IN  IF response.raises # ""
             THEN [calls |-> <<call_>>, result |-> Raised(response.raises)]
             ELSE IF response.HTTPStatusCode # 200
                  THEN [calls |-> <<call_>>, result |-> Raised("UnableToSendError")]
                  ELSE [calls |-> <<call_>>,
                        result |-> Returned(IF counter.none THEN counter
                                            ELSE Counter(counter.n + 1))]
    ELSE [calls |-> <<>>,
          result |-> Returned(IF counter.none THEN counter ELSE Counter(counter.n + 1))]

\* The exceptions a caller of send_message catches and logs
Caught == {"UnableToSendError", "ClientError"}

\* The message a "find and mail the report" block constructs for the report
\* file and its date; about holds the block's other arguments.
NewMessage(about, filename, date) ==
    CASE about.class = "TmailMessage" ->
             TmailMessage(about.to_emails, filename, about.acronym, date)
      [] about.class = "HttpsMessage" ->
             HttpsMessage(about.to_emails, filename, about.acronym, date)
      [] about.class = "CyhyMessage" ->
             CyhyMessage(about.to_emails, filename, about.acronym, date, about.technical_pocs)
      [] about.class = "CyhyNotificationMessage" ->
             CyhyNotificationMessage(about.to_emails, filename, about.acronym,
                                     about.is_federal, date)
      [] about.class = "ReportMessage" ->
             ReportMessage(<< <<"vulnerability@cisa.dhs.gov">> >>,
                           <<"Sample Cyber Hygiene Report - ", date>>, filename)

\* One "find and mail the report" block of a send_* function: glob the
\* directory for the agency's report, take the last name in sorted order,
\* extract the report date, build the message and send it.
\*   calls: the transport calls made; counter: the agencies-emailed counter
\*   afterwards; raised: an exception the block does not catch, or "".
mail_reportStopOnFailure(listing, prefix, id, after, about, counter, dry_run, response) ==
    LET filenames == sorted(glob(listing, prefix, id, ".pdf"))
    IN  IF ~Truthy(filenames)
        THEN [calls |-> <<>>, counter |-> counter, raised |-> ""]
        ELSE LET attachment_filename == filenames[Len(filenames)]
                 date == report_date_of(attachment_filename, after)
             IN  IF date.raised # ""
                 THEN [calls |-> <<>>, counter |-> counter, raised |-> date.raised]
                 ELSE LET message == NewMessage(about, attachment_filename, date.value)
                          sent == send_message(message, Counter(counter), dry_run, response)
                      IN  IF sent.result.raised # ""
                          THEN [calls |-> sent.calls, counter |-> counter,
                                raised |-> sent.result.raised]
                          ELSE [calls |-> sent.calls, counter |-> sent.result.value.n,
                                raised |-> ""]

mail_report(listing, prefix, id, after, about, counter, dry_run, response) ==
    LET filenames == sorted(glob(listing, prefix, id, ".pdf"))
    IN  IF ~Truthy(filenames)
        THEN [calls |-> <<>>, counter |-> counter, raised |-> ""]
        ELSE LET attachment_filename == filenames[Len(filenames)]
                 date == report_date_of(attachment_filename, after)
             IN  IF date.raised # ""
                 THEN [calls |-> <<>>, counter |-> counter, raised |-> date.raised]
                 ELSE LET message == NewMessage(about, attachment_filename, date.value)
                          sent == send_message(message, Counter(counter), dry_run, response)
                      IN  IF sent.result.raised \in Caught
                          THEN [calls |-> sent.calls, counter |-> counter, raised |-> ""]
                          ELSE [calls |-> sent.calls, counter |-> sent.result.value.n,
                                raised |-> ""]

----------------------------------------------------------------------------
(* The command line *)

\* The commands of the usage pattern
CommandsWithAdhoc == {"bod1801", "cybex", "cyhy", "notification", "adhoc"}

Commands == {"bod1801", "cybex", "cyhy", "notification"}

DirOptions == {"--cyhy-report-dir", "--tmail-report-dir", "--https-report-dir",
               "--cybex-scorecard-dir", "--cyhy-notification-dir"}

ArgKeys == Commands \cup DirOptions \cup {"--batch-size", "--summary-to", "--dry-run"}

\* docopt's dictionary.  A directory option that is given has the
\* directory's name as its value, and None otherwise.  --summary-to is a
\* string of characters; docopt's None for it is the empty sequence, as the
\* code only tests its truthiness.
Docopt(commands, dirs, batch_size, summary_to, dry_run) ==
    [k \in ArgKeys |->
        CASE k \in Commands -> k \in commands
          [] k \in DirOptions -> IF k \in dirs THEN "/reports" ELSE None
          [] k = "--batch-size" -> batch_size
          [] k = "--summary-to" -> summary_to
          [] k = "--dry-run" -> dry_run]

\* Python truthiness of a directory argument
DirGivenNotEmpty(dir) == dir # ""

DirGiven(dir) == dir # None /\ dir # ""

\* str.split(","): the pieces between the commas
RECURSIVE SplitCommaFrom(_, _, _)
SplitCommaFrom(s, i, piece) ==
    IF i > Len(s) THEN <<piece>>
    ELSE IF s[i] = ","
         THEN <<piece>> \o SplitCommaFrom(s, i + 1, <<>>)
         ELSE SplitCommaFrom(s, i + 1, Append(piece, s[i]))

split_comma(s) == SplitCommaFrom(s, 1, <<>>)

\* int(batch_size): the strings of the model that int() accepts
IsIntLiteral(s) == s \in {"5"}

----------------------------------------------------------------------------
(* The run *)

\* The requests collection after an operation of the run on it.  The run
\* uses find, find_one and count, which leave the collection as it is.
collection_afterDropRetired(d, operation) ==
    IF operation = "find"
    THEN [id \in {i \in DOMAIN d : ~IsRetired(d[i])} |-> d[id]]
    ELSE d

collection_after(d, operation) ==
    CASE operation = "find" -> d
      [] operation = "find_one" -> d
      [] operation = "count" -> d

\* The transport calls that did not hand the message over
Failed(calls) == SelectSeq(calls, LAMBDA c : c.response # Response(200))

\* How many sends of one run the transport may refuse
MaxSendFailures == 1

\* The answers the transport may give to the next send
NextResponses ==
    IF Len(Failed(transport)) < MaxSendFailures THEN Responses ELSE {Response(200)}

\* The sections of main after the set-up, in the order of its if statements
MainOrderSummaryEarly == <<"bod1801", "cybex", "cyhy", "summary", "notification">>

MainOrder == <<"bod1801", "cybex", "cyhy", "notification", "summary">>

\* The section of main that follows the given one
After(section) ==
    LET i == CHOOSE j \in 1..Len(MainOrder) : MainOrder[j] = section
    IN  IF i < Len(MainOrder) THEN MainOrder[i + 1] ELSE "done"

\* summary_to and all_stats_strings
SummaryWantedAlways(summary_to, all_stats_strings) == Truthy(all_stats_strings)

SummaryWanted(summary_to, all_stats_strings) ==
    Truthy(summary_to) /\ Truthy(all_stats_strings)

\* The run ends: main returns value, or exception e escapes from it
Return(value) ==
    /\ pc' = "done"
    /\ outcome' = Returned(value)

Raise(e) ==
    /\ pc' = "done"
    /\ outcome' = Raised(e)

\* A statistics string: the f-string's format and the values it prints.
\* percent is 100.0 * emailed / total, which divides by total.
StatsString(category, total, emailed) ==
    [category |-> category, total |-> total, emailed |-> emailed,
     percent |-> (100 * emailed) \div total]

FlagString(text) == [category |-> text]

\* What db_from_config(db_creds_file) may do: return the database ("") or
\* raise.  ConnectionFailure and InvalidName are the exceptions of
\* pymongo.errors for an unreachable server and an invalid database name.
DbFromConfigOutcomes ==
    {"", "OSError", "YAMLError", "KeyError", "ConnectionFailure", "InvalidName"}

\* The exception classes the module pymongo.errors defines, of those the
\* program names (pymongo >= 3.6.1): it has no attribute ConnectionError.
PymongoErrors == {"ConnectionFailure", "InvalidName", "OperationFailure"}

\* The except clauses after db = db_from_config(db_creds_file), in order;
\* module is the module whose attribute the clause's expression looks up
\* ("" for a name that is imported or built in).
ExceptClauses ==
    <<[module |-> "", class |-> "OSError"],
      [module |-> "", class |-> "YAMLError"],
      [module |-> "", class |-> "KeyError"],
      [module |-> "pymongo.errors", class |-> "ConnectionError"],
      [module |-> "pymongo.errors", class |-> "InvalidName"]>>

\* The try statement around db_from_config when it raised e: the clauses'
\* expressions are evaluated in order until one matches; evaluating an
\* attribute its module lacks raises AttributeError; a matching clause
\* logs and returns 1; an exception no clause matches escapes.
RECURSIVE main_except(_, _)
main_except(e, i) ==
    IF i > Len(ExceptClauses) THEN Raised(e)
    ELSE IF ExceptClauses[i].module = "pymongo.errors"
            /\ ExceptClauses[i].class \notin PymongoErrors
         THEN Raised("AttributeError")
         ELSE IF ExceptClauses[i].class = e
              THEN Returned(Counter(1))
              ELSE main_except(e, i + 1)

\* main up to the sending of reports: the database configuration is loaded
\* and --batch-size is converted.  locals records what db_from_config did.
MainStart ==
    /\ pc = "start"
    /\ \E loaded \in DbFromConfigOutcomes :
          /\ locals' = [db_from_config |-> loaded]
          /\ IF loaded # ""
             THEN /\ pc' = "done"
                  /\ outcome' = main_except(loaded, 1)
             ELSE IF args["--batch-size"] # None /\ ~IsIntLiteral(args["--batch-size"])
                  THEN Return(Counter(4))
                  ELSE /\ pc' = MainOrder[1]
                       /\ UNCHANGED outcome
    /\ UNCHANGED <<args, db, disk, transport, stats, cursor, call, ret>>

\* What the database does with a query: find() returns a cursor or raises
\* TypeError; cursor.count() returns the count or raises OperationFailure.
FindOutcomes == {"", "TypeError"}
CountOutcomes == {"", "OperationFailure"}

\* The local variables of a send_* function before its loop: the count is
\* bound only if cursor.count() returned.
LocalsWithCount(name, requests, counted, rest) ==
    IF counted = "" THEN (name :> Len(requests)) @@ rest ELSE rest

\* send_* returned the TypeError code 4 and main extends all_stats_strings
\* with it: list.extend(4) raises TypeError.
ExtendWithInt == Raise("TypeError")

\* The statistics strings of a send_* function are formatted and returned to
\* main, which extends all_stats_strings with them: a string with the count
\* and the percentage for each <<category, emailed>> of counted, then the
\* strings of flags.  NameError (UnboundLocalError) if the count is unbound,
\* ZeroDivisionError if it is 0.
FormatStats(name, counted, flags, next) ==
    IF name \notin DOMAIN locals THEN Raise("UnboundLocalError") /\ UNCHANGED stats
    ELSE IF locals[name] = 0 THEN Raise("ZeroDivisionError") /\ UNCHANGED stats
    ELSE /\ stats' = stats
                     \o [i \in 1..Len(counted) |->
                            StatsString(counted[i][1], locals[name], counted[i][2])]
                     \o flags
         /\ pc' = next
         /\ UNCHANGED outcome

(* send_bod_reports *)

\* main's call of send_bod_reports, up to the loop over bod_requests
BodStart ==
    /\ pc = "bod1801"
    /\ IF ~args["bod1801"]
       THEN /\ pc' = After("bod1801")
            /\ UNCHANGED <<db, cursor, locals, outcome>>
       ELSE LET fed_orgs == get_all_descendants(db, FEDERAL)
            IN  \E found \in FindOutcomes, counted \in CountOutcomes :
                  /\ db' = collection_after(collection_after(collection_after(db,
                               "find_one"), "find"), "count")
                  /\ IF fed_orgs.raised # ""
                     THEN /\ Raise(fed_orgs.raised)
                          /\ UNCHANGED <<cursor, locals>>
                     ELSE IF found # ""
                     THEN /\ ExtendWithInt
                          /\ UNCHANGED <<cursor, locals>>
                     ELSE LET bod_requests ==
                                  get_requests_raw(db, BodQuery(fed_orgs.value))
                          IN  /\ cursor' = bod_requests
                              /\ locals' = LocalsWithCount("bod_agencies", bod_requests, counted,
                                     [agencies_emailed_tmail_reports |-> 0,
                                      agencies_emailed_https_reports |-> 0])
                              /\ pc' = "bod_loop"
                              /\ UNCHANGED outcome
    /\ UNCHANGED <<args, disk, transport, stats, call, ret>>

\* One iteration of the loop over bod_requests
BodIter ==
    /\ pc = "bod_loop"
    /\ cursor # <<>>
    /\ LET request == Head(cursor)
           id == request._id
           acronym == request.agency.acronym
           to_emails == get_emails_from_request(request)
       IN  \E tmail_response \in NextResponses, https_response \in NextResponses :
             IF ~Truthy(to_emails)
             THEN /\ cursor' = Tail(cursor)
                  /\ UNCHANGED <<pc, transport, locals, outcome>>
             ELSE LET tmail ==
                          IF DirGiven(args["--tmail-report-dir"])
                          THEN mail_report(disk["--tmail-report-dir"], "cyhy-", id, "-tmail-report",
                                   [class |-> "TmailMessage", to_emails |-> to_emails, acronym |-> acronym],
                                   locals.agencies_emailed_tmail_reports,
                                   args["--dry-run"], tmail_response)
                          ELSE [calls |-> <<>>, raised |-> "",
                                counter |-> locals.agencies_emailed_tmail_reports]
                      https ==
                          IF tmail.raised = "" /\ DirGiven(args["--https-report-dir"])
                          THEN mail_report(disk["--https-report-dir"], "cyhy-", id, "-https-report",
                                   [class |-> "HttpsMessage", to_emails |-> to_emails, acronym |-> acronym],
                                   locals.agencies_emailed_https_reports,
                                   args["--dry-run"], https_response)
                          ELSE [calls |-> <<>>, raised |-> "",
                                counter |-> locals.agencies_emailed_https_reports]
                  IN  /\ Len(Failed(transport \o tmail.calls \o https.calls)) <= MaxSendFailures
                      /\ transport' = transport \o tmail.calls \o https.calls
                      /\ locals' = [locals EXCEPT
                                      !.agencies_emailed_tmail_reports = tmail.counter,
                                      !.agencies_emailed_https_reports = https.counter]
                      /\ IF tmail.raised # "" THEN Raise(tmail.raised) /\ UNCHANGED cursor
                         ELSE IF https.raised # "" THEN Raise(https.raised) /\ UNCHANGED cursor
                         ELSE cursor' = Tail(cursor) /\ UNCHANGED <<pc, outcome>>
    /\ UNCHANGED <<args, db, disk, stats, call, ret>>

\* After the loop: the statistics strings, and back in main
BodEnd ==
    /\ pc = "bod_loop"
    /\ cursor = <<>>
    /\ FormatStats("bod_agencies",
          <<<<"Trustworthy Email reports", locals.agencies_emailed_tmail_reports>>,
            <<"HTTPS reports", locals.agencies_emailed_https_reports>>>>,
          <<>>, After("bod1801"))
    /\ UNCHANGED <<args, db, disk, transport, cursor, locals, call, ret>>

(* send_cybex_scorecard *)

\* glob.glob(f"{dir}/{prefix}*{suffix}")
glob_any(listing, prefix, suffix) ==
    {f \in listing : Len(f) >= 2 /\ f[1] = prefix /\ f[Len(f)] = suffix}

\* re.search(r"Federal_Cyber_Exposure_Scorecard-(?P<date>\d{4}-[01]\d-[0-3]\d)", name)
\* and the conversion of the date
scorecard_date_of(name) ==
    LET matches == {i \in 2..Len(name) :
                       /\ name[i - 1] = "Federal_Cyber_Exposure_Scorecard-"
                       /\ IsDateShaped(name[i])}
    IN  IF matches = {} THEN Raised("AttributeError")
        ELSE LET i == CHOOSE j \in matches : \A k \in matches : j <= k
             IN  IF name[i] \in Dates THEN Returned(strftime(name[i]))
                 ELSE Raised("ValueError")

CybexCsvPrefixesUrgentFirst ==
    <<"cybex_open_tickets_urgent_",
      "cybex_closed_tickets_urgent_",
      "cybex_open_tickets_potentially_risky_services_",
      "cybex_closed_tickets_potentially_risky_services_">>

CybexCsvPrefixes ==
    <<"cybex_open_tickets_potentially_risky_services_",
      "cybex_closed_tickets_potentially_risky_services_",
      "cybex_open_tickets_urgent_",
      "cybex_closed_tickets_urgent_">>

Last(list) == list[Len(list)]

\* main's call of send_cybex_scorecard
Cybex ==
    /\ pc = "cybex"
    /\ IF ~args["cybex"]
       THEN /\ pc' = After("cybex")
            /\ UNCHANGED <<transport, stats, outcome>>
       ELSE IF ~DirGiven(args["--cybex-scorecard-dir"])
       THEN /\ stats' = Append(stats, FlagString("Cyber Exposure scorecard was not emailed."))
            /\ pc' = After("cybex")
            /\ UNCHANGED <<transport, outcome>>
       ELSE LET listing == disk["--cybex-scorecard-dir"]
                cybex_report_filenames ==
                    sorted(glob_any(listing, "Federal_Cyber_Exposure_Scorecard-", ".pdf"))
                csv_filenames ==
                    [k \in 1..4 |-> sorted(glob_any(listing, CybexCsvPrefixes[k], ".csv"))]
            IN  IF ~(Truthy(cybex_report_filenames) /\ \A k \in 1..4 : Truthy(csv_filenames[k]))
                THEN /\ stats' = Append(stats,
                                   FlagString("Cyber Exposure scorecard was not emailed."))
                     /\ pc' = After("cybex")
                     /\ UNCHANGED <<transport, outcome>>
                ELSE LET cybex_report_filename == Last(cybex_report_filenames)
                         date == scorecard_date_of(cybex_report_filename)
                     IN  IF date.raised # ""
                         THEN /\ Raise(date.raised)
                              /\ UNCHANGED <<transport, stats>>
                         ELSE \E response \in NextResponses :
                                LET message == CybexMessage(cybex_report_filename,
                                                   Last(csv_filenames[1]), Last(csv_filenames[2]),
                                                   Last(csv_filenames[3]), Last(csv_filenames[4]),
                                                   date.value)
                                    sent == send_message(message, Counter(0),
                                                         args["--dry-run"], response)
                                    cybex_report_emailed ==
                                        sent.result.raised = "" /\ sent.result.value.n # 0
                                IN  /\ transport' = transport \o sent.calls
                                    /\ stats' = Append(stats,
                                         IF cybex_report_emailed
                                         THEN FlagString("Cyber Exposure scorecard was emailed.")
                                         ELSE FlagString("Cyber Exposure scorecard was not emailed."))
                                    /\ pc' = After("cybex")
                                    /\ UNCHANGED outcome
    /\ UNCHANGED <<args, db, disk, cursor, locals, call, ret>>

(* send_cyhy_reports *)

\* main's call of send_cyhy_reports, up to the loop over cyhy_requests
CyhyStart ==
    /\ pc = "cyhy"
    /\ IF ~args["cyhy"]
       THEN /\ pc' = After("cyhy")
            /\ UNCHANGED <<db, cursor, locals, outcome>>
       ELSE \E found \in FindOutcomes, counted \in CountOutcomes :
              /\ db' = collection_after(collection_after(db, "find"), "count")
              /\ IF found # ""
                 THEN /\ ExtendWithInt
                      /\ UNCHANGED <<cursor, locals>>
                 ELSE LET cyhy_requests ==
                              get_requests_raw(db, RequestsQuery({"CYHY", "CYHY_THIRD_PARTY"}))
                      IN  /\ cursor' = cyhy_requests
                          /\ locals' = LocalsWithCount("cyhy_agencies", cyhy_requests, counted,
                                 [agencies_emailed_cyhy_reports |-> 0,
                                  sample_cyhy_report_emailed |-> FALSE])
                          /\ pc' = IF DirGiven(args["--cyhy-report-dir"])
                                   THEN "cyhy_loop" ELSE "cyhy_stats"
                          /\ UNCHANGED outcome
    /\ UNCHANGED <<args, disk, transport, stats, call, ret>>

\* One iteration of the loop over cyhy_requests
CyhyIter ==
    /\ pc = "cyhy_loop"
    /\ cursor # <<>>
    /\ LET request == Head(cursor)
           id == request._id
           acronym == request.agency.acronym
           contacts == request.agency.contacts
       IN  IF \E i \in 1..Len(contacts) : "type" \notin DOMAIN contacts[i]
           THEN \* contact["type"] raises KeyError
                /\ Raise("KeyError")
                /\ UNCHANGED <<transport, cursor, locals>>
           ELSE LET technical_pocs == SelectSeq(contacts, LAMBDA c : c.type = "TECHNICAL")
                    to_emails == get_emails_from_request(request)
                IN  IF ~Truthy(to_emails)
                    THEN /\ cursor' = Tail(cursor)
                         /\ UNCHANGED <<pc, transport, locals, outcome>>
                    ELSE \E response \in NextResponses :
                           LET cyhy == mail_report(disk["--cyhy-report-dir"], "cyhy-", id, "T",
                                           [class |-> "CyhyMessage", to_emails |-> to_emails,
                                            acronym |-> acronym,
                                            technical_pocs |-> technical_pocs],
                                           locals.agencies_emailed_cyhy_reports,
                                           args["--dry-run"], response)
                           IN  /\ transport' = transport \o cyhy.calls
                               /\ locals' = [locals EXCEPT
                                               !.agencies_emailed_cyhy_reports = cyhy.counter]
                               /\ IF cyhy.raised # ""
                                  THEN Raise(cyhy.raised) /\ UNCHANGED cursor
                                  ELSE cursor' = Tail(cursor) /\ UNCHANGED <<pc, outcome>>
    /\ UNCHANGED <<args, db, disk, stats, call, ret>>

SAMPLE == <<"SAMPLE">>

\* After the loop, the sample report is mailed.
CyhySample ==
    /\ pc = "cyhy_loop"
    /\ cursor = <<>>
    /\ \E response \in NextResponses :
         LET sample == mail_report(disk["--cyhy-report-dir"], "cyhy-", SAMPLE, "T",
                           [class |-> "ReportMessage"],
                           0, args["--dry-run"], response)
         IN  /\ transport' = transport \o sample.calls
             /\ locals' = [locals EXCEPT !.sample_cyhy_report_emailed = sample.counter # 0]
             /\ IF sample.raised # ""
                THEN Raise(sample.raised)
                ELSE pc' = "cyhy_stats" /\ UNCHANGED outcome
    /\ UNCHANGED <<args, db, disk, stats, cursor, call, ret>>

\* The statistics strings, and back in main
CyhyEnd ==
    /\ pc = "cyhy_stats"
    /\ FormatStats("cyhy_agencies",
          <<<<"Cyber Hygiene reports", locals.agencies_emailed_cyhy_reports>>>>,
          <<IF locals.sample_cyhy_report_emailed
            THEN FlagString("Sample Cyber Hygiene report was emailed.")
            ELSE FlagString("Sample Cyber Hygiene report was not emailed.")>>,
          After("cyhy"))
    /\ UNCHANGED <<args, db, disk, transport, cursor, locals, call, ret>>

(* send_cyhy_notifications *)

\* main's call of send_cyhy_notifications, up to the loop over cyhy_requests
NotificationStart ==
    /\ pc = "notification"
    /\ IF ~args["notification"]
       THEN /\ pc' = After("notification")
            /\ UNCHANGED <<db, cursor, locals, outcome>>
       ELSE \E found \in FindOutcomes, counted \in CountOutcomes :
              /\ db' = collection_after(collection_after(collection_after(db,
                           "find"), "count"), "find_one")
              /\ IF found # ""
                 THEN /\ ExtendWithInt
                      /\ UNCHANGED <<cursor, locals>>
                 ELSE LET cyhy_requests ==
                              get_requests_raw(db, RequestsQuery({"CYHY"}))
                          fed_orgs == get_all_descendants(db, FEDERAL)
                      IN  IF fed_orgs.raised # ""
                          THEN /\ Raise(fed_orgs.raised)
                               /\ UNCHANGED <<cursor, locals>>
                          ELSE /\ cursor' = cyhy_requests
                               /\ locals' = LocalsWithCount("cyhy_agencies", cyhy_requests, counted,
                                      [agencies_emailed_cyhy_notifications |-> 0,
                                       fed_orgs |-> fed_orgs.value])
                               /\ pc' = "notification_loop"
                               /\ UNCHANGED outcome
    /\ UNCHANGED <<args, disk, transport, stats, call, ret>>

\* One iteration of the loop over cyhy_requests
NotificationIter ==
    /\ pc = "notification_loop"
    /\ cursor # <<>>
    /\ LET request == Head(cursor)
           id == request._id
           acronym == request.agency.acronym
           is_federal == id \in locals.fed_orgs
           to_emails == get_emails_from_request(request)
       IN  IF ~Truthy(to_emails) \/ ~DirGiven(args["--cyhy-notification-dir"])
           THEN /\ cursor' = Tail(cursor)
                /\ UNCHANGED <<pc, transport, locals, outcome>>
           ELSE \E response \in NextResponses :
                  LET sent == mail_report(disk["--cyhy-notification-dir"], "cyhy-notification-",
                                  id, "T",
                                  [class |-> "CyhyNotificationMessage", to_emails |-> to_emails,
                                   acronym |-> acronym, is_federal |-> is_federal],
                                  locals.agencies_emailed_cyhy_notifications,
                                  args["--dry-run"], response)
                  IN  /\ transport' = transport \o sent.calls
                      /\ locals' = [locals EXCEPT
                                      !.agencies_emailed_cyhy_notifications = sent.counter]
                      /\ IF sent.raised # ""
                         THEN Raise(sent.raised) /\ UNCHANGED cursor
                         ELSE cursor' = Tail(cursor) /\ UNCHANGED <<pc, outcome>>
    /\ UNCHANGED <<args, db, disk, stats, call, ret>>

\* The statistics string, and back in main
NotificationEnd ==
    /\ pc = "notification_loop"
    /\ cursor = <<>>
    /\ FormatStats("cyhy_agencies",
          <<<<"Cyber Hygiene notifications", locals.agencies_emailed_cyhy_notifications>>>>,
          <<>>, After("notification"))
    /\ UNCHANGED <<args, db, disk, transport, cursor, locals, call, ret>>

(* main: the summary statistics *)

Summary ==
    /\ pc = "summary"
    /\ LET summary_to == args["--summary-to"]
       IN  IF SummaryWanted(summary_to, stats)
           THEN \E response \in NextResponses :
                  LET message == StatsMessage(split_comma(summary_to), stats)
                      sent == send_message(message, NoneCounter, args["--dry-run"], response)
                  IN  transport' = transport \o sent.calls
           ELSE UNCHANGED transport
    /\ IF After("summary") = "done"
       THEN Return(NoneCounter)
       ELSE pc' = After("summary") /\ UNCHANGED outcome
    /\ UNCHANGED <<args, db, disk, stats, cursor, locals, call, ret>>

----------------------------------------------------------------------------
(* The inputs of a run *)

\* Contacts of request documents
Distro == [type |-> "DISTRO", email |-> <<"d", "@", "x">>, name |-> "Dee"]
Technical == [type |-> "TECHNICAL", email |-> <<"t", "@", "x">>, name |-> "Tee"]
Blank == [type |-> "TECHNICAL", email |-> <<" ">>, name |-> "Bee"]
Untyped == [email |-> <<"u", "@", "x">>, name |-> "You"]

\* The request documents an agency can have.  federal says whether the
\* FEDERAL document lists the agency among its children.
AllProfiles ==
    <<[report_types |-> {"CYHY", "BOD"}, retired |-> FALSE, federal |-> TRUE,
       contacts |-> <<Distro, Technical>>],
      [report_types |-> {"BOD"}, retired |-> FALSE, federal |-> FALSE,
       contacts |-> <<Technical>>],
      [report_types |-> {"CYHY"}, retired |-> TRUE, federal |-> TRUE,
       contacts |-> <<Distro>>],
      [report_types |-> {"CYHY", "CYHY_THIRD_PARTY"}, retired |-> FALSE, federal |-> FALSE,
       contacts |-> <<Blank>>],
      [report_types |-> {"CYHY"}, retired |-> FALSE, federal |-> TRUE,
       contacts |-> <<Untyped, Technical>>]>>

\* The documents of the i-th agency: three of the five, a different three
\* for each agency
AgencyProfiles(id) ==
    {AllProfiles[((NaturalOrder(id) + k) % Len(AllProfiles)) + 1] : k \in {0, 1, 3}}

Seq2Set(list) == {list[i] : i \in 1..Len(list)}

Acronym(id) == id

RequestDoc(id, profile) ==
    [_id |-> id, retired |-> profile.retired, report_types |-> profile.report_types,
     children |-> <<>>,
     agency |-> [acronym |-> Acronym(id), contacts |-> profile.contacts]]

FederalDoc(children) ==
    [_id |-> FEDERAL, retired |-> FALSE, report_types |-> {}, children |-> children,
     agency |-> [acronym |-> FEDERAL, contacts |-> <<>>]]

\* The collection in which agency id has profile profiles[id]
Database(profiles) ==
    [id \in AgencyIds \cup {FEDERAL} |->
        IF id = FEDERAL
        THEN FederalDoc(InNaturalOrder({a \in AgencyIds : profiles[a].federal}))
        ELSE RequestDoc(id, profiles[id])]

\* The same without the FEDERAL document
WithoutFederal(d) == [id \in DOMAIN d \ {FEDERAL} |-> d[id]]

\* A collection with two levels below FEDERAL: FEDERAL lists the first
\* agency, which lists the second and is retired or not.
Nested(retired) ==
    LET first == [report_types |-> {"CYHY", "BOD"}, retired |-> retired, federal |-> TRUE,
                  contacts |-> <<Distro>>]
        second == [report_types |-> {"CYHY"}, retired |-> FALSE, federal |-> FALSE,
                   contacts |-> <<Distro, Technical>>]
        d == Database((AllIds[1] :> first) @@ [id \in AgencyIds |-> second])
    IN  [d EXCEPT ![AllIds[1]].children = <<AllIds[2]>>]

\* A collection whose first agency has a single contact, one without a
\* type, and so no address; the other agencies have a DISTRO contact.
Typeless ==
    Database([id \in AgencyIds |->
                 [report_types |-> {"CYHY", "BOD"}, retired |-> FALSE, federal |-> TRUE,
                  contacts |-> IF id = AllIds[1] THEN <<Untyped>> ELSE <<Distro>>]])

Databases ==
    LET all == {Database(profiles) :
                   profiles \in {p \in [AgencyIds -> Seq2Set(AllProfiles)] :
                                    \A id \in AgencyIds : p[id] \in AgencyProfiles(id)}}
    IN  all \cup {WithoutFederal(CHOOSE d \in all : TRUE)}
            \cup {Nested(retired) : retired \in BOOLEAN}
            \cup {Typeless}

\* The dated part of the report names of a directory
DateChoices == {{"2019-01-05", "2019-02-05"}, {"2019-01-05", NoDate}, {NoDay}}

CybexFiles(dates) ==
    {<<"Federal_Cyber_Exposure_Scorecard-", date, ".pdf">> : date \in dates}
    \cup {<<CybexCsvPrefixes[k], date, ".csv">> : k \in 1..4, date \in dates}

\* The report directories when the agencies of ids, and the scorecard and
\* the sample report, have reports of the given dates
Disk(ids, dates) ==
    [dir \in DirOptions |->
        CASE dir = "--tmail-report-dir" ->
                 {TmailReport(id, date) : id \in ids, date \in dates}
          [] dir = "--https-report-dir" ->
                 {HttpsReport(id, date) : id \in ids, date \in dates}
          [] dir = "--cyhy-report-dir" ->
                 {CyhyReport(id, date) : id \in ids \cup {SAMPLE}, date \in dates}
          [] dir = "--cyhy-notification-dir" ->
                 {CyhyNotification(id, date) : id \in ids, date \in dates}
          [] dir = "--cybex-scorecard-dir" -> CybexFiles(dates)]

\* Reports for every agency, or for the first one only, or none at all
Disks == {Disk(ids, dates) : ids \in {AgencyIds, {AllIds[1]}}, dates \in DateChoices}
         \cup {[dir \in DirOptions |-> {}]}

\* How many of the report kinds and directory options a command line of the
\* model leaves out
MaxOmitted == 1

CommandLines ==
    {Docopt(commands, dirs, None, summary_to, dry_run) :
        commands \in SUBSET Commands \ {{}},
        dirs \in SUBSET DirOptions,
        summary_to \in {<<>>, <<"s", ",", "t">>},
        dry_run \in BOOLEAN}

Omitted(line) == {k \in Commands : ~line[k]} \cup {k \in DirOptions : line[k] = None}

\* The state of a run that has not started
Idle ==
    /\ transport = <<>>
    /\ stats = <<>>
    /\ cursor = <<>>
    /\ locals = <<>>
    /\ outcome = Nothing

Init ==
    /\ pc = "start"
    /\ args \in {line \in CommandLines : Cardinality(Omitted(line)) <= MaxOmitted}
                \cup {[line EXCEPT !["--batch-size"] = "x"] :
                         line \in {l \in CommandLines : Omitted(l) = {}}}
    /\ db \in Databases
    /\ disk \in Disks
    /\ Idle
    /\ call = Nothing
    /\ ret = Nothing

Next ==
    \/ MainStart
    \/ BodStart
    \/ BodIter
    \/ BodEnd
    \/ Cybex
    \/ CyhyStart
    \/ CyhyIter
    \/ CyhySample
    \/ CyhyEnd
    \/ NotificationStart
    \/ NotificationIter
    \/ NotificationEnd
    \/ Summary

Spec == Init /\ [][Next]_vars

----------------------------------------------------------------------------
(* get_emails_from_request on its own *)

\* A contact dictionary with or without a type and an email
Contacts ==
    {t @@ e : t \in {<<>>} \cup {[type |-> t] : t \in {"DISTRO", "TECHNICAL", "OTHER"}},
              e \in {<<>>} \cup {[email |-> e] : e \in {<<>>, <<" ">>, <<"a">>, <<" ", "b">>}}}

RECURSIVE ListsUpTo(_, _)
ListsUpTo(S, n) ==
    IF n = 0 THEN {<<>>}
    ELSE LET shorter == ListsUpTo(S, n - 1)
         IN  shorter \cup {Append(l, x) : l \in shorter, x \in S}

\* The state of the run's variables in a specification of one function
NoRun ==
    /\ args = Nothing
    /\ db = Nothing
    /\ disk = Nothing
    /\ Idle

InitEmails ==
    /\ pc = "call"
    /\ call \in {[fn |-> "get_emails_from_request",
                  request |-> [_id |-> AllIds[1],
                               agency |-> [acronym |-> Acronym(AllIds[1]), contacts |-> cs]]] :
                    cs \in ListsUpTo(Contacts, MaxContacts)}
    /\ ret = Nothing
    /\ NoRun

CallGetEmails ==
    /\ pc = "call"
    /\ call.fn = "get_emails_from_request"
    /\ ret' = get_emails_from_request(call.request)
    /\ pc' = "returned"
    /\ UNCHANGED <<args, db, disk, transport, stats, cursor, locals, outcome, call>>

SpecEmails == InitEmails /\ [][CallGetEmails]_vars

(* send_message on its own *)

MaxCounter == 2

SomeMessages ==
    {TmailMessage(<< <<"d", "@", "x">> >>, TmailReport(AllIds[1], "2019-01-05"),
                  Acronym(AllIds[1]), "January 05, 2019"),
     StatsMessage(<< <<"s">>, <<"t">> >>, <<FlagString("Cyber Exposure scorecard was emailed.")>>)}

InitSend ==
    /\ pc = "call"
    /\ call \in {[fn |-> "send_message", message |-> m, counter |-> c, dry_run |-> d,
                  response |-> r] :
                    m \in SomeMessages,
                    c \in {NoneCounter} \cup {Counter(n) : n \in 0..MaxCounter},
                    d \in BOOLEAN,
                    r \in Responses \cup {Response(400)}}
    /\ ret = Nothing
    /\ NoRun

CallSendMessage ==
    /\ pc = "call"
    /\ call.fn = "send_message"
    /\ ret' = send_message(call.message, call.counter, call.dry_run, call.response)
    /\ pc' = "returned"
    /\ UNCHANGED <<args, db, disk, transport, stats, cursor, locals, outcome, call>>

SpecSend == InitSend /\ [][CallSendMessage]_vars

(* get_all_descendants on its own *)

\* How many children a request document of the hierarchies lists
MaxChildren == 2

\* The organizations of the hierarchies below FEDERAL
TreeIds == {AllIds[i] : i \in 1..3}

\* The children lists a document can have: up to MaxChildren other documents
ChildrenLists(id) ==
    {InNaturalOrder(c) : c \in {c \in SUBSET ((TreeIds \cup {FEDERAL}) \ {id}) :
                                   Cardinality(c) <= MaxChildren}}

\* A hierarchy: FEDERAL and the organizations, each with a children list and
\* a retired flag; the organizations of missing have no document.
Hierarchy(children, retired, missing) ==
    [id \in (TreeIds \cup {FEDERAL}) \ missing |->
        [_id |-> id, retired |-> id \in retired, children |-> children[id]]]

\* Every hierarchy in which the last organization may have no document
InitDescendants ==
    /\ pc = "call"
    /\ LET nodes == TreeIds \cup {FEDERAL}
           lists == [id \in nodes |-> ChildrenLists(id)]
       IN  \E children \in {c \in [nodes -> UNION {lists[id] : id \in nodes}] :
                                \A id \in nodes : c[id] \in lists[id]},
              retired \in SUBSET TreeIds,
              missing \in {{}, {AllIds[3]}} :
                db = Hierarchy(children, retired, missing)
    /\ call \in {[fn |-> "get_all_descendants", parent |-> parent] :
                    parent \in {FEDERAL, AllIds[1]}}
    /\ ret = Nothing
    /\ args = Nothing
    /\ disk = Nothing
    /\ Idle

CallGetAllDescendants ==
    /\ pc = "call"
    /\ call.fn = "get_all_descendants"
    /\ ret' = get_all_descendants(db, call.parent)
    /\ pc' = "returned"
    /\ UNCHANGED <<args, db, disk, transport, stats, cursor, locals, outcome, call>>

SpecDescendants == InitDescendants /\ [][CallGetAllDescendants]_vars

(* Message.__init__ on its own *)

\* How many addresses a list of the model has
MaxAddrs == 2

Addresses == {<<"a">>, <<"b", "@", "c">>, <<"d", "@", "x">>}

\* Calls of the constructors: Message with all its arguments, and Message,
\* ReportMessage and HttpsMessage with from_addr and cc_addrs left out
InitMessage ==
    /\ pc = "call"
    /\ call \in {[fn |-> "Message", to_addrs |-> to, subject |-> subject,
                  text_body |-> text, html_body |-> html,
                  from_addr |-> from, cc_addrs |-> cc] :
                    to \in ListsUpTo(Addresses, MaxAddrs),
                    subject \in {<<>>, <<"The subject">>},
                    text \in {<<>>, <<"The plain-text body">>},
                    html \in {<<>>, <<"<p>The HTML body</p>">>},
                    from \in {DefaultFrom, <<"sender@example.com">>},
                    cc \in {NoneList} \cup {List(l) : l \in ListsUpTo(Addresses, MaxAddrs)}}
                \cup {[fn |-> "Message(to_addrs)", to_addrs |-> to] :
                         to \in ListsUpTo(Addresses, MaxAddrs)}
                \cup {[fn |-> "ReportMessage", to_addrs |-> to, subject |-> <<"The subject">>,
                       pdf_filename |-> <<"pdf-sample.pdf">>] :
                         to \in ListsUpTo(Addresses, MaxAddrs)}
                \cup {[fn |-> "HttpsMessage", to_addrs |-> to,
                       pdf_filename |-> <<"pdf-sample.pdf">>,
                       agency_acronym |-> <<"CLARKE">>, report_date |-> date] :
                         to \in ListsUpTo(Addresses, MaxAddrs),
                         date \in {"December 15, 2001", "January 05, 2019"}}
    /\ ret = Nothing
    /\ NoRun

CallMessage ==
    /\ pc = "call"
    /\ call.fn = "Message"
    /\ ret' = Message(call.to_addrs, call.subject, call.text_body, call.html_body,
                      call.from_addr, call.cc_addrs)
    /\ pc' = "returned"
    /\ UNCHANGED <<args, db, disk, transport, stats, cursor, locals, outcome, call>>

\* Message(to): subject, text_body and html_body are None, from_addr and
\* cc_addrs the defaults
CallMessageDefaults ==
    /\ pc = "call"
    /\ call.fn = "Message(to_addrs)"
    /\ ret' = Message(call.to_addrs, <<>>, <<>>, <<>>, DefaultFrom, DefaultCc)
    /\ pc' = "returned"
    /\ UNCHANGED <<args, db, disk, transport, stats, cursor, locals, outcome, call>>

\* ReportMessage(to, subject, text_body, html_body, pdf)
CallReportMessage ==
    /\ pc = "call"
    /\ call.fn = "ReportMessage"
    /\ ret' = ReportMessage__init__(call.to_addrs, call.subject, <<"The plain-text body">>,
                                    <<"<p>The HTML body</p>">>, call.pdf_filename,
                                    DefaultFrom, DefaultCc)
    /\ pc' = "returned"
    /\ UNCHANGED <<args, db, disk, transport, stats, cursor, locals, outcome, call>>

\* HttpsMessage(to, pdf, agency_acronym, report_date)
CallHttpsMessage ==
    /\ pc = "call"
    /\ call.fn = "HttpsMessage"
    /\ ret' = HttpsMessage(call.to_addrs, call.pdf_filename, call.agency_acronym,
                           call.report_date)
    /\ pc' = "returned"
    /\ UNCHANGED <<args, db, disk, transport, stats, cursor, locals, outcome, call>>

SpecMessage ==
    InitMessage
    /\ [][CallMessage \/ CallMessageDefaults \/ CallReportMessage \/ CallHttpsMessage]_vars

(* The glob pattern on its own *)

\* Agency IDs, of which two extend the first with a hyphenated suffix
GlobIds == {<<"X">>, <<"X", "-", "A">>, <<"X", "-", "2A">>}

\* The reports of a kind that the report generators write for an agency
ReportsOf(kind, id, dates) ==
    CASE kind = "tmail" -> {TmailReport(id, date) : date \in dates}
      [] kind = "https" -> {HttpsReport(id, date) : date \in dates}
      [] kind = "cyhy" -> {CyhyReport(id, date) : date \in dates}
      [] kind = "notification" -> {CyhyNotification(id, date) : date \in dates}

\* A report directory: the reports of one kind for some agencies and dates
Listings ==
    {UNION {ReportsOf(kind, id, dates) : id \in ids} :
        kind \in {"tmail", "https", "cyhy", "notification"},
        ids \in SUBSET GlobIds \ {{}},
        dates \in SUBSET Dates \ {{}}}

InitGlob ==
    /\ pc = "call"
    /\ call \in {[fn |-> "glob", listing |-> listing, prefix |-> prefix, id |-> id] :
                    listing \in Listings,
                    prefix \in {"cyhy-", "cyhy-notification-"},
                    id \in GlobIds}
    /\ ret = Nothing
    /\ NoRun

\* sorted(glob.glob(pattern)) and, if a name matched, the last one
CallGlob ==
    /\ pc = "call"
    /\ call.fn = "glob"
    /\ LET filenames == sorted(glob(call.listing, call.prefix, call.id, ".pdf"))
       IN  ret' = [filenames |-> filenames,
                   attachment_filename |-> IF Truthy(filenames)
                                           THEN <<filenames[Len(filenames)]>> ELSE <<>>]
    /\ pc' = "returned"
    /\ UNCHANGED <<args, db, disk, transport, stats, cursor, locals, outcome, call>>

SpecGlob == InitGlob /\ [][CallGlob]_vars

----------------------------------------------------------------------------
(* A run over two agencies of which one's ID extends the other's *)

\* The agencies X and X-2A: both receive every kind of report; X is federal
\* and has a DISTRO contact, X-2A is not federal and has a TECHNICAL contact.
PairDatabase ==
    [id \in {AllIds[1], AllIds[5], FEDERAL} |->
        IF id = FEDERAL THEN FederalDoc(<<AllIds[1]>>)
        ELSE RequestDoc(id, [report_types |-> {"CYHY", "BOD"}, retired |-> FALSE,
                             contacts |-> IF id = AllIds[1] THEN <<Distro>>
                                          ELSE <<Technical>>])]

InitPairs ==
    /\ pc = "start"
    /\ args \in {line \in CommandLines : Omitted(line) = {}}
    /\ db = PairDatabase
    /\ disk \in {Disk(ids, dates) : ids \in {{AllIds[1], AllIds[5]}, {AllIds[5]}}, dates \in DateChoices}
    /\ Idle
    /\ call = Nothing
    /\ ret = Nothing

SpecPairs == InitPairs /\ [][Next]_vars

----------------------------------------------------------------------------
(* send_cybex_scorecard on its own *)

\* The scorecard directory: for the scorecard and for each of the four CSV
\* files, no file, one, or two of different dates; the scorecard's name may
\* also lack the day of its date.
CybexDisks ==
    {[dir \in DirOptions |->
         IF dir = "--cybex-scorecard-dir"
         THEN {<<"Federal_Cyber_Exposure_Scorecard-", date, ".pdf">> : date \in pdf}
              \cup UNION {{<<CybexCsvPrefixes[k], date, ".csv">> : date \in csv[k]} : k \in 1..4}
         ELSE {}] :
        pdf \in {{}, {"2019-01-05"}, {"2019-01-05", "2019-02-05"}, {NoDay}},
        csv \in [1..4 -> {{}, {"2019-01-05"}, {"2019-01-05", "2019-02-05"}}]}

InitCybex ==
    /\ pc = "cybex"
    /\ args \in {Docopt({"cybex"}, dirs, None, <<>>, dry_run) :
                    dirs \in {{}, {"--cybex-scorecard-dir"}}, dry_run \in BOOLEAN}
    /\ db = Nothing
    /\ disk \in CybexDisks
    /\ Idle
    /\ call = Nothing
    /\ ret = Nothing

SpecCybex == InitCybex /\ [][Cybex]_vars

----------------------------------------------------------------------------
(* Properties *)

\* The messages the transport accepted (HTTP status 200)
Accepted(class) ==
    SelectSeq(transport, LAMBDA c : c.message.class = class /\ c.response = Response(200))

\* The message classes of a report kind, by the kind's directory option
ClassesOf(dir) ==
    CASE dir = "--tmail-report-dir" -> {"TmailMessage"}
      [] dir = "--https-report-dir" -> {"HttpsMessage"}
      [] dir = "--cybex-scorecard-dir" -> {"CybexMessage"}
      [] dir = "--cyhy-report-dir" -> {"CyhyMessage", "ReportMessage"}
      [] dir = "--cyhy-notification-dir" -> {"CyhyNotificationMessage"}

\* The message class a statistics string counts
ClassCounted(category) ==
    CASE category = "Trustworthy Email reports" -> "TmailMessage"
      [] category = "HTTPS reports" -> "HttpsMessage"
      [] category = "Cyber Hygiene reports" -> "CyhyMessage"
      [] category = "Cyber Hygiene notifications" -> "CyhyNotificationMessage"

\* The statistics strings a report command contributes: one of each set
StringsOf(command) ==
    CASE command = "bod1801" -> {{"Trustworthy Email reports"}, {"HTTPS reports"}}
      [] command = "cybex" -> {{"Cyber Exposure scorecard was emailed.",
                                "Cyber Exposure scorecard was not emailed."}}
      [] command = "cyhy" -> {{"Cyber Hygiene reports"},
                              {"Sample Cyber Hygiene report was emailed.",
                               "Sample Cyber Hygiene report was not emailed."}}
      [] command = "notification" -> {{"Cyber Hygiene notifications"}}

\* C1: get_emails_from_request returns exactly the emails of the usable
\* DISTRO contacts, in their order, when there is one, and otherwise exactly
\* those of the usable TECHNICAL contacts; a contact without a type, without
\* an email, or with an empty or whitespace-only email is not usable and
\* contributes nothing.
C1_Recipients ==
    pc = "returned" /\ call.fn = "get_emails_from_request" =>
        LET cs == call.request.agency.contacts
            Usable(c) == /\ "type" \in DOMAIN c
                         /\ "email" \in DOMAIN c
                         /\ \E k \in 1..Len(c.email) : c.email[k] # " "
            Of(type) == {i \in 1..Len(cs) : Usable(cs[i]) /\ cs[i].type = type}
            chosen == IF Of("DISTRO") # {} THEN Of("DISTRO") ELSE Of("TECHNICAL")
        IN  /\ Len(ret) = Cardinality(chosen)
            /\ \A i \in chosen : ret[Cardinality({j \in chosen : j <= i})] = cs[i].email

\* A DISTRO contact with a whitespace-only email and a contact without a
\* type are passed over, and the TECHNICAL contact's address is returned.
C1_Witness ==
    /\ pc = "returned" /\ call.fn = "get_emails_from_request"
    /\ LET cs == call.request.agency.contacts
       IN  /\ Len(cs) = 2
           /\ cs[1] = [type |-> "DISTRO", email |-> <<" ">>]
           /\ cs[2] = [type |-> "TECHNICAL", email |-> <<" ", "b">>]
    /\ ret = << <<" ", "b">> >>

\* C2: in a dry run no message is ever handed to the mail transport.
C2_DryRunSendsNothing ==
    args # Nothing /\ args["--dry-run"] => transport = <<>>

\* A dry run ended that counted an agency as emailed and had a summary to send.
C2_Witness ==
    /\ pc = "done" /\ args # Nothing /\ args["--dry-run"]
    /\ outcome = Returned(NoneCounter)
    /\ SummaryWanted(args["--summary-to"], stats)
    /\ \E i \in 1..Len(stats) : "emailed" \in DOMAIN stats[i] /\ stats[i].emailed > 0

\* C3: if the directory option of a report kind is not specified, no message
\* of that kind is sent.
C3_NoDirectoryNoMessage ==
    args # Nothing =>
        \A dir \in DirOptions :
            args[dir] = None =>
                \A i \in 1..Len(transport) : transport[i].message.class \notin ClassesOf(dir)

\* A run ended that sent reports although a directory option of a selected
\* command was left out.
C3_Witness ==
    /\ pc = "done" /\ args # Nothing
    /\ \A c \in Commands : args[c]
    /\ args["--https-report-dir"] = None
    /\ \E i \in 1..Len(transport) : transport[i].message.class = "TmailMessage"
    /\ \E i \in 1..Len(transport) : transport[i].message.class = "CyhyNotificationMessage"

\* C4: the number of agencies a statistics string reports as emailed is the
\* number of messages of its category that the transport accepted.
C4_CountedAreHanded ==
    \A i \in 1..Len(stats) :
        "emailed" \in DOMAIN stats[i] =>
            stats[i].emailed = Len(Accepted(ClassCounted(stats[i].category)))

\* C5: every send_* function returns a tuple of strings on every path, so
\* that no run ends with an exception once the reports are being sent.
C5_AlwaysATuple ==
    pc = "done" => outcome.raised = ""

\* C6: with dry_run false, send_message raises UnableToSendError when the
\* response's status code is not 200 and lets the transport's ClientError
\* through, returning no value.
C6_SendErrors ==
    pc = "returned" /\ call.fn = "send_message" /\ ~call.dry_run =>
        /\ call.response.raises = "ClientError" => ret.result = Raised("ClientError")
        /\ call.response.raises = "" /\ call.response.HTTPStatusCode # 200 =>
               ret.result = Raised("UnableToSendError")
        /\ ret.result.raised # "" => ret.result.value = Nothing

\* send_message was called with a counter and the transport answered 500.
C6_Witness ==
    /\ pc = "returned" /\ call.fn = "send_message"
    /\ ~call.dry_run /\ ~call.counter.none
    /\ call.response = Response(500)
    /\ ret.result.raised = "UnableToSendError"

\* C7: with a counter, send_message returns counter + 1 if the message was
\* sent successfully and counter if it was not.
C7_CounterReturned ==
    pc = "returned" /\ call.fn = "send_message" /\ ~call.counter.none =>
        LET sent == \E i \in 1..Len(ret.calls) : ret.calls[i].response = Response(200)
        IN  ret.result = Returned(Counter(IF sent THEN call.counter.n + 1
                                          ELSE call.counter.n))

\* C8: the summary statistics message is sent at most once, when every
\* selected report kind has contributed its statistics, and it is the last
\* message of the run.
C8_SummaryLast ==
    \A i \in 1..Len(transport) :
        transport[i].message.class = "StatsMessage" =>
            /\ i = Len(transport)
            /\ pc = "done"
            /\ \A c \in Commands :
                   args[c] =>
                       \A one \in StringsOf(c) :
                           \E k \in 1..Len(transport[i].message.strings) :
                               transport[i].message.strings[k].category \in one

\* The summary was sent after a trustymail report and a notification.
C8_Witness ==
    /\ pc = "done"
    /\ Len(transport) >= 3
    /\ transport[Len(transport)].message.class = "StatsMessage"
    /\ transport[1].message.class = "TmailMessage"
    /\ transport[Len(transport) - 1].message.class = "CyhyNotificationMessage"

\* C9: without --summary-to no summary statistics message is sent.
C9_NoSummaryTo ==
    args # Nothing /\ ~Truthy(args["--summary-to"]) =>
        \A i \in 1..Len(transport) : transport[i].message.class # "StatsMessage"

\* A run without --summary-to ended normally after sending reports.
C9_Witness ==
    /\ pc = "done" /\ args # Nothing
    /\ ~Truthy(args["--summary-to"])
    /\ outcome = Returned(NoneCounter)
    /\ Truthy(stats)
    /\ Len(Accepted("TmailMessage")) > 0

\* C10: no step of a run changes the requests collection.
C10_ReadOnly == [][db' = db]_vars

\* A run over a database with a retired document ended, normally or not,
\* after querying it.
C10_Witness ==
    /\ pc = "done" /\ db # Nothing
    /\ \E id \in DOMAIN db : IsRetired(db[id])
    /\ outcome.raised = "ZeroDivisionError"

\* C11: when the database configuration cannot be loaded main returns 1, and
\* when --batch-size is not an integer main returns 4; in both cases nothing
\* is sent.
C11_ConfigurationErrors ==
    (pc = "done" /\ "db_from_config" \in DOMAIN locals) =>
        /\ locals.db_from_config # "" =>
               outcome = Returned(Counter(1)) /\ transport = <<>>
        /\ (locals.db_from_config = "" /\ args["--batch-size"] = "x") =>
               outcome = Returned(Counter(4)) /\ transport = <<>>

\* The documents the children lists of the documents of ids name
ChildrenOf(d, ids) ==
    UNION {Seq2Set(d[id].children) : id \in ids \cap DOMAIN d}

\* The IDs reachable from those of ids through children links
RECURSIVE ReachableFrom(_, _)
ReachableFrom(d, ids) ==
    LET more == ids \cup ChildrenOf(d, ids)
    IN  IF more = ids THEN ids ELSE ReachableFrom(d, more)

\* C12: get_all_descendants returns every request document that is reachable
\* from parent through children links and is not retired, and no retired
\* document.
C12_AllDescendants ==
    (pc = "returned" /\ call.fn = "get_all_descendants" /\ ret.raised = "") =>
        LET reachable == ReachableFrom(db, ChildrenOf(db, {call.parent}))
        IN  /\ \A id \in reachable \cap DOMAIN db : ~IsRetired(db[id]) => id \in ret.value
            /\ \A id \in ret.value : id \in DOMAIN db /\ ~IsRetired(db[id])

\* The wordings of a notification: the Binding Operational Directive one
\* and the recommendation
Mandatory == {[text |-> "As part of BOD 19-02, critical findings need to be remediated"],
              [text |-> "As part of <a>BOD 19-02</a>, critical findings need to be remediated"]}
Recommended == {[text |-> "CISA recommends remediating critical findings"]}

Carries(message, wording) ==
    /\ Seq2Set(message.text_body) \cap wording # {}
    /\ Seq2Set(message.html_body) \cap wording # {}

CarriesNone(message, wording) ==
    /\ Seq2Set(message.text_body) \cap wording = {}
    /\ Seq2Set(message.html_body) \cap wording = {}

\* The agencies reachable from FEDERAL through children links
FederalDescendants == ReachableFrom(db, ChildrenOf(db, {FEDERAL}))

\* C13: a notification carries the Binding Operational Directive wording if
\* the agency is a descendant of FEDERAL and the recommendation if it is not,
\* and never both or neither.
C13_NotificationWording ==
    \A i \in 1..Len(transport) :
        LET message == transport[i].message
        IN  message.class = "CyhyNotificationMessage" =>
                IF message.agency_acronym \in FederalDescendants
                THEN Carries(message, Mandatory) /\ CarriesNone(message, Recommended)
                ELSE Carries(message, Recommended) /\ CarriesNone(message, Mandatory)

\* The addresses a header holds: the pieces between its commas, none for
\* the empty header
AddressesIn(header) == IF header = <<>> THEN <<>> ELSE split_comma(header)

\* C14: the To header of a message is its recipients joined by commas in
\* the order given, the CC header is the CC addresses joined by commas in the
\* order given, and there is no CC header when the CC list is empty or None.
C14_ToAndCc ==
    (pc = "returned" /\ call.fn = "Message") =>
        /\ AddressesIn(ret.headers["To"]) = call.to_addrs
        /\ IF call.cc_addrs.none \/ call.cc_addrs.list = <<>>
           THEN "CC" \notin DOMAIN ret.headers
           ELSE /\ "CC" \in DOMAIN ret.headers
                /\ AddressesIn(ret.headers["CC"]) = call.cc_addrs.list

\* A message was constructed with two recipients and two CC addresses.
C14_Witness ==
    /\ pc = "returned" /\ call.fn = "Message"
    /\ Len(call.to_addrs) = 2 /\ call.to_addrs[1] # call.to_addrs[2]
    /\ ~call.cc_addrs.none /\ Len(call.cc_addrs.list) = 2
    /\ "CC" \in DOMAIN ret.headers

\* C15: a Message constructed from a recipient list alone, and a
\* ReportMessage or an HttpsMessage constructed without from_addr and
\* cc_addrs, has the From header reports@cyber.dhs.gov and the CC header
\* reports@cyber.dhs.gov.
C15_DefaultFromAndCc ==
    (pc = "returned" /\ call.fn \in {"Message(to_addrs)", "ReportMessage", "HttpsMessage"}) =>
        /\ ret.headers["From"] = <<"reports@cyber.dhs.gov">>
        /\ "CC" \in DOMAIN ret.headers
        /\ ret.headers["CC"] = <<"reports@cyber.dhs.gov">>

\* The sentence that opens the note on the Technical Points of Contact
PocNote ==
    {[text |-> "Note: NCATS has the following information listed as the Technical Points of Contact for "]}

\* The values a body puts in for the variable name, in order
ValuesIn(body, name) ==
    LET pieces == SelectSeq(body, LAMBDA piece : "variable" \in DOMAIN piece
                                                  /\ piece.variable = name)
    IN  [i \in 1..Len(pieces) |-> pieces[i].value]

\* The note is in the body if and only if there are POCs, with the name and
\* the email of every POC once and in order.
NotesPocs(body, tech_pocs) ==
    /\ (Seq2Set(body) \cap PocNote # {}) <=> (tech_pocs # <<>>)
    /\ ValuesIn(body, "name") = [i \in 1..Len(tech_pocs) |-> tech_pocs[i].name]
    /\ ValuesIn(body, "email") = [i \in 1..Len(tech_pocs) |-> tech_pocs[i].email]

\* C16: a CyhyMessage that send_cyhy_reports constructs with the report date
\* and the technical POCs has the Technical Points of Contact note in its
\* text and HTML bodies if and only if there are POCs, and the note lists
\* every POC's name and email once, in the order given.
C16_TechnicalPocs ==
    \A i \in 1..Len(transport) :
        LET message == transport[i].message
        IN  message.class = "CyhyMessage" =>
                /\ NotesPocs(message.text_body, message.fy_quarter)
                /\ NotesPocs(message.html_body, message.fy_quarter)

\* The options of the usage pattern that the run reads
Options == DirOptions \cup {"--batch-size", "--summary-to", "--dry-run"}

\* The classes of the messages with a fixed template
TemplateClasses ==
    {"TmailMessage", "HttpsMessage", "CyhyMessage", "CyhyNotificationMessage",
     "CybexMessage", "ReportMessage", "StatsMessage"}

ReportClasses == {"TmailMessage", "HttpsMessage", "CyhyMessage", "CyhyNotificationMessage"}

DirOf(class) ==
    CASE class = "TmailMessage" -> "--tmail-report-dir"
      [] class = "HttpsMessage" -> "--https-report-dir"
      [] class = "CyhyMessage" -> "--cyhy-report-dir"
      [] class = "CyhyNotificationMessage" -> "--cyhy-notification-dir"

PrefixOf(class) ==
    IF class = "CyhyNotificationMessage" THEN "cyhy-notification-" ELSE "cyhy-"

\* The files of the message's directory that match the glob pattern of the
\* message's agency
MatchesOf(message) ==
    glob(disk[DirOf(message.class)], PrefixOf(message.class), message.agency_acronym, ".pdf")

\* The token after "<prefix><ID>-" in the name of an agency's file
DateTokenOf(message, name) == name[Len(message.agency_acronym) + 3]

FilesOf(id) ==
    UNION {ReportsOf(kind, id, Dates) : kind \in {"tmail", "https", "cyhy", "notification"}}

\* C19: the pattern for the agency with ID X matches only files of agency X,
\* never a file of an agency whose ID extends X with a hyphenated suffix.
C19_OwnFilesOnly ==
    (pc = "returned" /\ call.fn = "glob") =>
        \A i \in 1..Len(ret.filenames) : ret.filenames[i] \in FilesOf(call.id)

\* The agency has reports of the kind in the directory, and each has a date
HasReports(kind, dir, id) ==
    /\ DirGiven(args[dir])
    /\ \E date \in Dates : ReportsOf(kind, id, {date}) \subseteq disk[dir]
    /\ \A tok \in {NoDay, NoDate} : ReportsOf(kind, id, {tok}) \cap disk[dir] = {}

\* A message of the class for the agency was handed to the transport
Attempted(class, id) ==
    \E i \in 1..Len(transport) :
        /\ transport[i].message.class = class
        /\ transport[i].message.agency_acronym = id

\* The agencies of the cursor of send_bod_reports that have recipients
BodAgencies ==
    LET fed_orgs == get_all_descendants(db, FEDERAL)
        requests == get_requests_raw(db, BodQuery(fed_orgs.value))
    IN  {requests[i]._id : i \in {j \in 1..Len(requests) :
                                     Truthy(get_emails_from_request(requests[j]))}}

\* The loop of send_bod_reports ran to its end
BodLoopEnded ==
    \E i \in 1..Len(stats) : stats[i].category = "Trustworthy Email reports"

\* C20: a send that fails with UnableToSendError or ClientError does not stop
\* the run: the exception does not leave the loop, the HTTPS report of the
\* agency is attempted after its trustymail report failed, and the reports
\* of all agencies of the cursor are attempted.
C20_FailureDoesNotStop ==
    args # Nothing =>
        /\ outcome # Nothing => outcome.raised \notin {"UnableToSendError", "ClientError"}
        /\ \A i \in 1..Len(transport) :
              (/\ transport[i].message.class = "TmailMessage"
               /\ transport[i].response # Response(200)
               /\ HasReports("https", "--https-report-dir", transport[i].message.agency_acronym))
              => \E j \in (i + 1)..Len(transport) :
                    /\ transport[j].message.class = "HttpsMessage"
                    /\ transport[j].message.agency_acronym = transport[i].message.agency_acronym
        /\ (BodLoopEnded /\ ~args["--dry-run"]) =>
              \A id \in BodAgencies :
                  /\ HasReports("tmail", "--tmail-report-dir", id) => Attempted("TmailMessage", id)
                  /\ HasReports("https", "--https-report-dir", id) => Attempted("HttpsMessage", id)

\* The trustymail report of the first of two agencies could not be sent; its
\* HTTPS report and the reports of the second agency were sent.
C20_Witness ==
    /\ args # Nothing /\ BodLoopEnded
    /\ Len(transport) >= 4
    /\ transport[1].message.class = "TmailMessage"
    /\ transport[1].response # Response(200)
    /\ transport[2].message.class = "HttpsMessage"
    /\ transport[2].message.agency_acronym = transport[1].message.agency_acronym
    /\ transport[3].message.class = "TmailMessage"
    /\ transport[3].message.agency_acronym # transport[1].message.agency_acronym
    /\ transport[3].response = Response(200)

\* The request document has no contact with an address to send to: none that
\* is of type DISTRO or TECHNICAL and has an email that is not blank
Addressless(request) ==
    \A i \in 1..Len(request.agency.contacts) :
        LET c == request.agency.contacts[i]
        IN  ~(/\ "type" \in DOMAIN c
              /\ "email" \in DOMAIN c
              /\ c.type \in {"DISTRO", "TECHNICAL"}
              /\ \E k \in 1..Len(c.email) : c.email[k] # " ")

\* A send_* function is at the head of its loop, with a request to process
InLoop == pc \in {"bod_loop", "cyhy_loop", "notification_loop"} /\ cursor # <<>>

\* C21: an agency for which recipient resolution yields no address receives
\* no message of any kind and is not counted as emailed, and processing
\* continues with the next agency in the cursor.
C21_NoAddressSkipped ==
    [][(InLoop /\ Addressless(Head(cursor))) =>
          /\ transport' = transport
          /\ locals' = locals
          /\ cursor' = Tail(cursor)
          /\ pc' = pc]_vars

\* The report types a command asks for
ReportTypesOf(command) ==
    CASE command = "bod1801" -> {"BOD"}
      [] command = "cyhy" -> {"CYHY", "CYHY_THIRD_PARTY"}
      [] command = "notification" -> {"CYHY"}

\* The agencies whose request document is not retired and matches the
\* command's report types
ToProcess(command) ==
    {id \in DOMAIN db :
        /\ ~IsRetired(db[id])
        /\ \/ db[id].report_types \cap ReportTypesOf(command) # {}
           \/ /\ command = "bod1801"
              /\ "CYHY" \in db[id].report_types
              /\ id \in FederalDescendants}

\* C22: a report command processes an agency if and only if its request
\* document is not retired and matches the command's report types (for
\* bod1801: BOD, or CYHY and a descendant of FEDERAL; for cyhy: CYHY or
\* CYHY_THIRD_PARTY; for notification: CYHY), and no message is ever sent for
\* a retired request document.
C22_Processed ==
    /\ [](\A i \in 1..Len(transport) :
            transport[i].message.class \in ReportClasses =>
                /\ transport[i].message.agency_acronym \in DOMAIN db
                /\ ~IsRetired(db[transport[i].message.agency_acronym]))
    /\ [][\A command \in {"bod1801", "cyhy", "notification"} :
            (pc = command /\ args[command] /\ pc' # "done") =>
                {cursor'[i]._id : i \in 1..Len(cursor')} = ToProcess(command)]_vars

\* The five files of the scorecard message, in the order in which the
\* message is to carry them: the start and the end of their names, and the
\* type of their parts
ScorecardFiles ==
    <<[start |-> "Federal_Cyber_Exposure_Scorecard-", end |-> ".pdf", type |-> "application/pdf"],
      [start |-> "cybex_open_tickets_potentially_risky_services_", end |-> ".csv", type |-> "text/csv"],
      [start |-> "cybex_closed_tickets_potentially_risky_services_", end |-> ".csv", type |-> "text/csv"],
      [start |-> "cybex_open_tickets_urgent_", end |-> ".csv", type |-> "text/csv"],
      [start |-> "cybex_closed_tickets_urgent_", end |-> ".csv", type |-> "text/csv"]>>

\* The files of the scorecard directory that are of the k-th kind
ScorecardFound(k) ==
    {f \in disk["--cybex-scorecard-dir"] :
        f[1] = ScorecardFiles[k].start /\ f[Len(f)] = ScorecardFiles[k].end}

\* The parts of a message that are attached files
AttachedFiles(message) == SelectSeq(message.parts, LAMBDA part : "filename" \in DOMAIN part)

\* C23: the scorecard message is sent only if the scorecard PDF and all four
\* CSV files are found, and it carries exactly these five files, the PDF
\* first and then the CSV files for risky services open, risky services
\* closed, urgent open and urgent closed; if any of the five is missing, no
\* message is sent and the statistic reads "Cyber Exposure scorecard was not
\* emailed."
C23_ScorecardAttachments ==
    args # Nothing =>
        /\ \A i \in 1..Len(transport) :
              LET message == transport[i].message
                  files == AttachedFiles(message)
              IN  message.class = "CybexMessage" =>
                      /\ \A k \in 1..5 : ScorecardFound(k) # {}
                      /\ Len(files) = 5
                      /\ \A k \in 1..5 : /\ files[k].filename \in ScorecardFound(k)
                                          /\ files[k].type = ScorecardFiles[k].type
        /\ (pc # "cybex" /\ \E k \in 1..5 : ScorecardFound(k) = {}) =>
              /\ transport = <<>>
              /\ stats = <<FlagString("Cyber Exposure scorecard was not emailed.")>>

\* The scorecard was sent from a directory that holds two scorecards and two
\* files of a CSV kind.
C23_Witness ==
    /\ Len(transport) = 1
    /\ transport[1].message.class = "CybexMessage"
    /\ transport[1].response = Response(200)
    /\ Cardinality(ScorecardFound(1)) = 2
    /\ Cardinality(ScorecardFound(4)) = 2
    /\ stats = <<FlagString("Cyber Exposure scorecard was emailed.")>>

\* The recipients of an agency: the addresses of its DISTRO contacts if it
\* has any, and of its TECHNICAL contacts otherwise
RecipientsOf(request) ==
    LET Of(type) == SelectSeq(request.agency.contacts,
                              LAMBDA c : /\ "type" \in DOMAIN c /\ c.type = type
                                         /\ "email" \in DOMAIN c
                                         /\ \E k \in 1..Len(c.email) : c.email[k] # " ")
        chosen == IF Of("DISTRO") # <<>> THEN Of("DISTRO") ELSE Of("TECHNICAL")
    IN  [i \in 1..Len(chosen) |-> chosen[i].email]

\* C24: every per-agency message is addressed exactly to the recipients
\* resolved from one agency's request document, names that agency's acronym
\* and federal status, and carries a report of that same agency: no message
\* combines one agency's recipients, acronym or federal status with another
\* agency's report.
C24_SameAgency ==
    args # Nothing =>
        \A i \in 1..Len(transport) :
            LET message == transport[i].message
            IN  message.class \in ReportClasses =>
                    \E id \in DOMAIN db :
                        /\ message.to = RecipientsOf(db[id])
                        /\ message.agency_acronym = db[id].agency.acronym
                        /\ message.class = "CyhyNotificationMessage" =>
                               message.is_federal = (id \in get_all_descendants(db, FEDERAL).value)
                        /\ Len(message.attachments) = 1
                        /\ message.attachments[1] \in FilesOf(id) \cap disk[DirOf(message.class)]

\* C25: a report date can be extracted from the file selected among the
\* matches of an agency's glob pattern, whatever files match, so selecting
\* and attaching a report never ends the run before the remaining agencies
\* are processed: no iteration over an agency ends the run with the
\* exception of a failed date extraction.
C25_DateExtracted ==
    [][InLoop => ~(pc' = "done" /\ outcome'.raised \in {"AttributeError", "ValueError"})]_vars

\* C26: a message has a body container if and only if at least one of the
\* plain-text and HTML bodies is given (is neither None nor empty); there is
\* one container, a multipart/alternative one, which holds the bodies given
\* and nothing else, and when both are given the plain-text part precedes
\* the HTML part, so that the HTML version is the one displayed by default.
C26_BodyContainer ==
    (pc = "returned" /\ call.fn = "Message") =>
        LET containers == SelectSeq(ret.parts, LAMBDA part : "parts" \in DOMAIN part)
            plain == [type |-> "text/plain", payload |-> call.text_body]
            html == [type |-> "text/html", payload |-> call.html_body]
        IN  /\ Len(ret.parts) = Len(containers)
            /\ Len(containers) = IF call.text_body # <<>> \/ call.html_body # <<>> THEN 1 ELSE 0
            /\ \A i \in 1..Len(containers) :
                  /\ containers[i].type = "multipart/alternative"
                  /\ containers[i].parts =
                        CASE call.text_body # <<>> /\ call.html_body # <<>> -> <<plain, html>>
                          [] call.text_body # <<>> /\ call.html_body = <<>> -> <<plain>>
                          [] call.text_body = <<>> /\ call.html_body # <<>> -> <<html>>

\* A message constructed with both bodies
C26_Witness ==
    /\ pc = "returned" /\ call.fn = "Message"
    /\ call.text_body = <<"The plain-text body">>
    /\ call.html_body = <<"<p>The HTML body</p>">>
    /\ Len(ret.parts) = 1
    /\ Len(ret.parts[1].parts) = 2

====
